---- MODULE Spec2Model ----
(***************************************************************************)
(* Model of runtime/src/axum/mod.rs: the AxumWasm lifecycle controller     *)
(* (load / start / subscribe_logs / stop), the server task                 *)
(* run_until_stopped, and the per-request bridge Router::handle_request    *)
(* with its log-forwarding task and the shared log queue.                  *)
(***************************************************************************)
EXTENDS Integers, Sequences, FiniteSets, TLC

(* ------------------------------ bounds --------------------------------- *)
\* number of Start calls made on the controller over its lifetime
MaxStarts == 2
\* number of subscribe_logs calls made on the controller over its lifetime
MaxSubs == 2
\* connections accepted over the lifetime of the servers
MaxConns == 2
\* HTTP requests received over the lifetime of the servers
MaxReqs == 2
\* log records one guest invocation emits at most
MaxLogs == 2
\* capacity of the log queue (mpsc::channel(1 << 15) in AxumWasm::new,
\* mpsc::channel(1) in tests::axum)
LogQueueCap == 1
\* log records the logs channel (a socket pair, line 243-244) holds before a
\* write of the guest blocks, the one the log task has read and not yet sent
\* included
LogChanCap == 1
\* worker threads of the runtime that runs the server, connection and log tasks
Workers == 2
\* bytes a channel (a socket pair of line 243-250, with the buffers the
\* platform gives it) holds before a write to it blocks
SockBuf == 212992

(* ----------------------------- constants ------------------------------- *)
NoModule == "None"
Paths == {"good.wasm", "noexport.wasm", "missing.wasm"}
DeployIds == {"d1", "d2"}
Ports == {8000, 8001}
Names == {"svc", "-bad-"}

\* RouterBuilder::build: Module::from_file fails on a missing or malformed
\* artifact; the exports of the module are printed but not checked.
Build_lax(path) == path
Build(path) == IF path = "missing.wasm" THEN "CompileError" ELSE path

\* ServiceName::from_str accepts the name or returns an error.
ValidName(name) == name = "svc"

Chans == 1..MaxStarts
Conns == 1..MaxConns
Reqs == 1..MaxReqs

\* line 296: 1024 * 64
BodyCeiling == 65536
\* the size assumed when the body gives no upper bound (line 294): u64::MAX in
\* the source, here the largest integer TLC has, above every size and the ceiling
U64Max == 2147483647
Unknown == -1
BodySizes == {0, 65536, 65537}
\* what Body::size_hint().upper() can report for a body of the given size;
\* Unknown stands for None
Hints(size) == {size, Unknown}

\* responses a guest can produce: status and body
GuestResponses ==
    {[status |-> 200, body |-> "Hello, World!"], [status |-> 404, body |-> ""],
     [status |-> 200, body |-> "1 MiB of text"]}
\* the length of a body in bytes
BodyLen(body) ==
    IF body = "" THEN 0 ELSE IF body = "Hello, World!" THEN 13 ELSE 1048576
\* status 0: no response yet; -1: no response ever, the connection was lost
NoResp == [status |-> 0, body |-> ""]
Empty(status) == [status |-> status, body |-> ""]

VARIABLES
    router,     \* AxumWasm.router: NoModule or the built module
    logs_rx,    \* AxumWasm.logs_rx: TRUE while the receiver is still stored
    kill_tx,    \* AxumWasm.kill_tx: 0 (None) or the oneshot channel whose sender is stored
    nStarts,    \* Start calls so far; call k creates oneshot channel k
    chan,       \* oneshot channels: state of each sender and receiver half
    server,     \* server tasks, one per successful Start, indexed by channel
    run,        \* history: "never", "running" (Start succeeded), "stopped" (Stop succeeded)
    loaded,     \* history: a Load succeeded since construction or the last successful Start
    subCalls,   \* history: SubscribeLogs calls so far
    last,       \* history: the last control-plane call, the state it was made in, its result
    conns,      \* connections accepted by the servers, each with its service's clones
    reqs,       \* requests: position in handle_request, input, failed step
    sess,       \* the session of each request: Store, channels, log task
    hist,       \* history of each request
    resp,       \* the HTTP response to each request
    guestMem,   \* history: the guest memory left behind by the last guest invocation
    logq,       \* the log queue between logs_tx and logs_rx
    stream,     \* the subscriber's ReceiverStream: "none", "live" or "dropped"
    received    \* history: per request, the records the subscriber has received

ctl == <<router, logs_rx, kill_tx, nStarts, chan, server, run, loaded, subCalls, last>>
bridge == <<conns, reqs, sess, hist, resp, guestMem, logq, received>>
vars == <<router, logs_rx, kill_tx, nStarts, chan, server, run, loaded, subCalls, last,
          conns, reqs, sess, hist, resp, guestMem, logq, stream, received>>

\* The controller state of the specification, read off the history.
Phase ==
    IF run = "running" THEN "Running"
    ELSE IF run = "stopped" THEN "Stopped"
    ELSE IF router # NoModule THEN "Loaded" ELSE "Unloaded"

\* st: "none", "spawned", "serving", "exited" or "panicked"; dep, module and
\* port are the arguments of run_until_stopped; of a task that is gone only
\* the deployment id is remembered
NoServer == [st |-> "none", dep |-> "none", module |-> NoModule, port |-> 0]

\* A connection's service holds clones of the server's router, deployment id and logs_tx.
NoConn == [st |-> "none", srv |-> 0, dep |-> "none", module |-> NoModule, linker |-> "wasi"]

\* pc: position in handle_request; conn: the connection the request came
\* on; size: bytes of its body; upper: body.size_hint().upper(); fail: the
\* step that failed
NoReq == [pc |-> "idle", conn |-> 0, size |-> 0, upper |-> Unknown, fail |-> "none"]

\* mem: guest memory of the Store; open: the guest ends of the four channels,
\* owned by the Store, are open; parts: what was last written to the parts
\* channel; bw: bytes written to body-write before the host end was dropped;
\* logch: records in the logs channel; task: the log-forwarding task,
\* "running", "reading" (blocked in a read of the empty logs channel), "done"
\* or "panicked"
NoSess == [mem |-> "none", open |-> FALSE, parts |-> <<>>, bw |-> <<>>,
           logch |-> <<>>, task |-> "none"]

\* late: the session was created after the server saw the kill message;
\* seen: guest memory found at the start of the guest call; read: the request
\* body was read; got: body bytes the guest was invoked with; made: the
\* response the guest produced; emitted: log records the guest has written;
\* steps: the IPC steps of the bridge that were carried out, in their order
NoHist == [late |-> FALSE, seen |-> "none", read |-> FALSE, got |-> <<>>,
           made |-> NoResp, emitted |-> 0, steps |-> <<>>]

Init ==
    /\ router = NoModule
    /\ logs_rx = TRUE
    /\ kill_tx = 0
    /\ nStarts = 0
    /\ chan = [k \in Chans |-> [tx |-> "none", rx |-> "none"]]
    /\ server = [k \in Chans |-> NoServer]
    /\ run = "never"
    /\ loaded = FALSE
    /\ subCalls = 0
    /\ last = [op |-> "new", arg |-> "", res |-> "ok", phase |-> "Unloaded"]
    /\ conns = [c \in Conns |-> NoConn]
    /\ reqs = [r \in Reqs |-> NoReq]
    /\ sess = [r \in Reqs |-> NoSess]
    /\ hist = [r \in Reqs |-> NoHist]
    /\ resp = [r \in Reqs |-> NoResp]
    /\ guestMem = "pristine"
    /\ logq = <<>>
    /\ stream = "none"
    /\ received = [r \in Reqs |-> <<>>]

\* Dropping the sender stored in kill_tx: the receiver then resolves with an error.
DropSender(ch, k) ==
    IF k # 0 /\ ch[k].tx = "live" THEN [ch EXCEPT ![k].tx = "dropped"] ELSE ch

(* ------------------------------ AxumWasm ------------------------------- *)
load(path) ==
    /\ IF Build(path) = "CompileError"
       THEN /\ last' = [op |-> "Load", arg |-> path, res |-> "CompileError", phase |-> Phase]
            /\ UNCHANGED <<router, loaded>>
       ELSE /\ router' = Build(path)
            /\ loaded' = TRUE
            /\ last' = [op |-> "Load", arg |-> path, res |-> "ok", phase |-> Phase]
    /\ UNCHANGED <<logs_rx, kill_tx, nStarts, chan, server, run, subCalls, bridge, stream>>

\* router.lock().take(): the stored module is moved out
TakeRouter_keep(r) == r
TakeRouter(r) == NoModule

start(deployment_id, port) ==
    /\ nStarts < MaxStarts
    /\ LET k == nStarts + 1
           \* line 109-111: the new sender replaces (drops) the stored one
           ch1 == [DropSender(chan, kill_tx) EXCEPT ![k] = [tx |-> "live", rx |-> "live"]]
       IN /\ nStarts' = k
          /\ kill_tx' = k
          /\ IF router = NoModule
             THEN \* line 113-119: early return, kill_rx is dropped
                  /\ chan' = [ch1 EXCEPT ![k].rx = "dropped"]
                  /\ last' = [op |-> "Start", arg |-> "", res |-> "NotLoaded", phase |-> Phase]
                  /\ UNCHANGED <<router, server, run, loaded>>
             ELSE /\ chan' = ch1
                  /\ router' = TakeRouter(router)
                  /\ server' = [server EXCEPT ![k] =
                        [st |-> "spawned", dep |-> deployment_id, module |-> router, port |-> port]]
                  /\ run' = "running"
                  /\ loaded' = FALSE
                  /\ last' = [op |-> "Start", arg |-> "", res |-> "ok", phase |-> Phase]
    /\ UNCHANGED <<logs_rx, subCalls, bridge, stream>>

\* logs_rx.lock().deref_mut().take()
TakeLogsRx_keep(rx) == rx
TakeLogsRx(rx) == FALSE

subscribe_logs ==
    /\ subCalls < MaxSubs
    /\ subCalls' = subCalls + 1
    /\ logs_rx' = TakeLogsRx(logs_rx)
    /\ last' = [op |-> "SubscribeLogs", arg |-> "",
                res |-> IF logs_rx THEN "ok" ELSE "AlreadySubscribed",
                phase |-> Phase]
    \* line 143: the receiver becomes the caller's ReceiverStream
    /\ stream' = IF logs_rx THEN "live" ELSE stream
    /\ UNCHANGED <<router, kill_tx, nStarts, chan, server, run, loaded, bridge>>

\* line 158 before line 155-156: the sender is taken, and dropped, before the
\* name is looked at
TakeKillTx_first(name, tx) == 0
\* line 155-158: kill_tx.take() comes after the ? of ServiceName::from_str
TakeKillTx(name, tx) == IF ValidName(name) THEN 0 ELSE tx

stop(name) ==
    /\ kill_tx' = TakeKillTx(name, kill_tx)
    /\ IF ~ValidName(name)
       THEN /\ last' = [op |-> "Stop", arg |-> name, res |-> "InvalidName", phase |-> Phase]
            /\ chan' = IF kill_tx' = kill_tx THEN chan ELSE DropSender(chan, kill_tx)
            /\ UNCHANGED run
       ELSE IF kill_tx = 0
       THEN /\ last' = [op |-> "Stop", arg |-> name, res |-> "NotRunning", phase |-> Phase]
            /\ UNCHANGED <<chan, run>>
       ELSE IF chan[kill_tx].rx = "live"
       THEN /\ chan' = [chan EXCEPT ![kill_tx].tx = "sent"]
            /\ run' = "stopped"
            /\ last' = [op |-> "Stop", arg |-> name, res |-> "ok", phase |-> Phase]
       ELSE /\ chan' = [chan EXCEPT ![kill_tx].tx = "dropped"]
            /\ last' = [op |-> "Stop", arg |-> name, res |-> "ShutdownFailed", phase |-> Phase]
            /\ UNCHANGED run
    /\ UNCHANGED <<router, logs_rx, nStarts, server, loaded, subCalls, bridge, stream>>

(* -------------------------- run_until_stopped --------------------------- *)
Listening(k) == server[k].st = "serving"

\* hyper::Server::bind panics when the address is taken: the task dies and
\* its kill_rx is dropped with it.
ServerBind(k) ==
    /\ server[k].st = "spawned"
    /\ IF \E j \in Chans : j # k /\ Listening(j) /\ server[j].port = server[k].port
       THEN /\ server' = [server EXCEPT ![k] = [NoServer EXCEPT !.st = "panicked", !.dep = server[k].dep]]
            /\ chan' = [chan EXCEPT ![k].rx = "dropped"]
       ELSE /\ server' = [server EXCEPT ![k].st = "serving"]
            /\ UNCHANGED chan
    /\ UNCHANGED <<router, logs_rx, kill_tx, nStarts, run, loaded, subCalls, last, bridge, stream>>

\* select!: the kill_rx branch, on a message only
ServerKilled_onMessage(k) ==
    /\ Listening(k)
    /\ chan[k].tx = "sent"
    /\ server' = [server EXCEPT ![k] = [NoServer EXCEPT !.st = "exited", !.dep = server[k].dep]]
    /\ chan' = [chan EXCEPT ![k].rx = "dropped"]
    /\ UNCHANGED <<router, logs_rx, kill_tx, nStarts, run, loaded, subCalls, last, bridge, stream>>

\* select!: the kill_rx branch, on a message or on the sender being dropped
ServerKilled(k) ==
    /\ Listening(k)
    /\ chan[k].tx \in {"sent", "dropped"}
    /\ server' = [server EXCEPT ![k] = [NoServer EXCEPT !.st = "exited", !.dep = server[k].dep]]
    /\ chan' = [chan EXCEPT ![k].rx = "dropped"]
    /\ UNCHANGED <<router, logs_rx, kill_tx, nStarts, run, loaded, subCalls, last, bridge, stream>>

\* select!: the server branch, the listener future completes with an error
ServerFailed(k) ==
    /\ Listening(k)
    /\ server' = [server EXCEPT ![k] = [NoServer EXCEPT !.st = "exited", !.dep = server[k].dep]]
    /\ chan' = [chan EXCEPT ![k].rx = "dropped"]
    /\ UNCHANGED <<router, logs_rx, kill_tx, nStarts, run, loaded, subCalls, last, bridge, stream>>

(* ------------------------- hyper connections --------------------------- *)
\* make_service_fn (line 367-371): the service of a new connection gets clones
\* of the server's router, deployment id and logs_tx
Accept(c, k) ==
    /\ Listening(k)
    /\ conns[c].st = "none"
    /\ \A d \in Conns : d < c => conns[d].st # "none"
    /\ conns' = [conns EXCEPT ![c] =
          [st |-> "open", srv |-> k, dep |-> server[k].dep,
           module |-> server[k].module, linker |-> "wasi"]]
    /\ UNCHANGED <<ctl, reqs, sess, hist, resp, guestMem, logq, stream, received>>

InFlight(c) == \E r \in Reqs : reqs[r].conn = c /\ reqs[r].pc \notin {"idle", "done"}

\* the client closes an idle connection
CloseConn(c) ==
    /\ conns[c].st = "open"
    /\ ~InFlight(c)
    /\ conns' = [conns EXCEPT ![c].st = "closed"]
    /\ UNCHANGED <<ctl, reqs, sess, hist, resp, guestMem, logq, stream, received>>

\* service_fn (line 372-378): a request on an open connection; the connection
\* task lives on its own and does not look at the server task
Arrive(r, c, size, upper) ==
    /\ conns[c].st = "open"
    /\ ~InFlight(c)
    /\ reqs[r].pc = "idle"
    /\ \A q \in Reqs : q < r => reqs[q].pc # "idle"
    /\ reqs' = [reqs EXCEPT ![r] =
          [NoReq EXCEPT !.pc = "new", !.conn = c, !.size = size, !.upper = upper]]
    /\ UNCHANGED <<ctl, conns, sess, hist, resp, guestMem, logq, stream, received>>

(* ----------------------- Router::handle_request ------------------------ *)
\* handle_request goes on to its next step
Goto(r, pc) == reqs' = [reqs EXCEPT ![r].pc = pc]

\* handle_request returns: its locals are dropped, the Store with them, which
\* closes the guest ends of the four channels
Return(r, response, step) ==
    /\ reqs' = [reqs EXCEPT ![r].pc = "done", ![r].fail = step]
    /\ resp' = [resp EXCEPT ![r] = response]
    /\ sess' = [sess EXCEPT ![r].open = FALSE]

\* line 379-386: an Err of handle_request becomes an empty 500
Fail(r, step) == Return(r, Empty(500), step)

\* line 240: Store::new gives the session a memory of its own
StoreNew_reuse(old) == old
StoreNew(old) == "pristine"

\* line 374: handle_request defines "axum" in a clone of the connection's
\* linker; the linker of the connection stays as it was
LinkerAfter_shared(linker) == "wasi+axum"
LinkerAfter(linker) == linker

\* the server of the connection has seen the message of a successful Stop
Cancelled(c) == server[conns[c].srv].st = "exited" /\ chan[conns[c].srv].tx = "sent"

\* line 234-280: execution context, instance, four channel pairs, log task
CreateSession(r, ok) ==
    /\ reqs[r].pc = "new"
    /\ LET c == reqs[r].conn IN
       IF ok /\ conns[c].linker = "wasi"
       THEN /\ Goto(r, "parts")
            /\ sess' = [sess EXCEPT ![r] = [NoSess EXCEPT
                    !.mem = StoreNew(guestMem), !.open = TRUE, !.task = "running"]]
            /\ hist' = [hist EXCEPT ![r].late = Cancelled(c)]
            /\ conns' = [conns EXCEPT ![c].linker = LinkerAfter(@)]
            /\ UNCHANGED resp
       ELSE /\ Fail(r, "session")
            /\ UNCHANGED <<conns, hist>>
    /\ UNCHANGED <<ctl, guestMem, logq, stream, received>>

\* line 282-290
WriteParts(r, ok) ==
    /\ reqs[r].pc = "parts"
    /\ IF ok
       THEN /\ Goto(r, "check")
            /\ sess' = [sess EXCEPT ![r].parts = <<"request">>]
            /\ hist' = [hist EXCEPT ![r].steps = Append(@, "parts")]
            /\ UNCHANGED resp
       ELSE Fail(r, "parts") /\ UNCHANGED hist
    /\ UNCHANGED <<ctl, conns, guestMem, logq, stream, received>>

\* line 294
BodySize_default(upper) == IF upper = Unknown THEN 0 ELSE upper
BodySize(upper) == IF upper = Unknown THEN U64Max ELSE upper

\* line 296
TooLarge(body_size) == body_size > BodyCeiling

\* line 292-304
CheckSize(r) ==
    /\ reqs[r].pc = "check"
    /\ IF TooLarge(BodySize(reqs[r].upper))
       THEN Return(r, Empty(413), "none")
       ELSE Goto(r, "body") /\ UNCHANGED <<sess, resp>>
    /\ UNCHANGED <<ctl, conns, hist, guestMem, logq, stream, received>>

\* line 306-308
ReadBody(r, ok) ==
    /\ reqs[r].pc = "body"
    /\ hist' = [hist EXCEPT ![r].read = TRUE]
    /\ IF ok THEN Goto(r, "write") /\ UNCHANGED <<sess, resp>>
       ELSE Fail(r, "body")
    /\ UNCHANGED <<ctl, conns, guestMem, logq, stream, received>>

\* line 310-316 without the ? of line 313: the error of the write is lost
WriteBody_unchecked(r, ok) ==
    /\ reqs[r].pc = "write"
    /\ IF ok
       THEN /\ Goto(r, "call")
            /\ sess' = [sess EXCEPT ![r].bw = <<reqs[r].size, "eof">>]
            /\ hist' = [hist EXCEPT ![r].steps = @ \o <<"body", "eof">>]
       ELSE /\ reqs' = [reqs EXCEPT ![r].pc = "call", ![r].fail = "bodywrite"]
            /\ UNCHANGED <<sess, hist>>
    /\ UNCHANGED <<ctl, conns, resp, guestMem, logq, stream, received>>

\* line 310-316: the body is written and body_write_stream dropped; write_all
\* returns once the channel, which nobody reads yet, has taken the whole body
WriteBody(r, ok) ==
    /\ reqs[r].pc = "write"
    /\ IF ok
       THEN /\ reqs[r].size <= SockBuf
            /\ Goto(r, "call")
            /\ sess' = [sess EXCEPT ![r].bw = <<reqs[r].size, "eof">>]
            /\ hist' = [hist EXCEPT ![r].steps = @ \o <<"body", "eof">>]
            /\ UNCHANGED resp
       ELSE Fail(r, "bodywrite") /\ UNCHANGED hist
    /\ UNCHANGED <<ctl, conns, guestMem, logq, stream, received>>

HasExport(module) == module # "noexport.wasm"

\* line 321-335: look up the entry point and call it. The expect of line 323
\* panics when the export is missing: the connection task unwinds, no
\* response is written and the connection is gone.
Invoke(r) ==
    /\ reqs[r].pc = "call"
    /\ LET c == reqs[r].conn IN
       IF HasExport(conns[c].module)
       THEN /\ Goto(r, "guest")
            /\ hist' = [hist EXCEPT ![r].seen = sess[r].mem, ![r].got = sess[r].bw,
                                    ![r].steps = Append(@, "invoke")]
            /\ sess' = [sess EXCEPT ![r].mem = "dirty"]
            /\ guestMem' = "dirty"
            /\ UNCHANGED <<conns, resp>>
       ELSE /\ Return(r, Empty(-1), "invoke")
            /\ conns' = [conns EXCEPT ![c].st = "closed"]
            /\ UNCHANGED <<guestMem, hist>>
    /\ UNCHANGED <<ctl, logq, stream, received>>

(* ------------------------------- guest --------------------------------- *)
\* the host end of the logs channel is owned by the log task (line 271-272)
LogsHostOpen(r) == sess[r].task \in {"running", "reading"}

\* the guest writes one log record to its logs descriptor: the write goes
\* through when the channel has room, also for a guest that was blocked in
\* it, and fails once the host end is closed
GuestLog(r) ==
    /\ reqs[r].pc \in {"guest", "log"}
    /\ hist[r].emitted < MaxLogs
    /\ hist' = [hist EXCEPT ![r].emitted = @ + 1]
    /\ IF LogsHostOpen(r)
       THEN /\ Len(sess[r].logch) < LogChanCap
            /\ sess' = [sess EXCEPT ![r].logch = Append(@, hist[r].emitted + 1)]
       ELSE UNCHANGED sess
    /\ Goto(r, "guest")
    /\ UNCHANGED <<ctl, conns, resp, guestMem, logq, stream, received>>

\* the guest writes a log record while the logs channel is full: the blocking
\* write of the synchronous WASI context keeps the guest, and with it the
\* call of line 327-335, waiting for the log task to make room
GuestLogBlocks(r) ==
    /\ reqs[r].pc = "guest"
    /\ hist[r].emitted < MaxLogs
    /\ LogsHostOpen(r)
    /\ Len(sess[r].logch) >= LogChanCap
    /\ Goto(r, "log")
    /\ UNCHANGED <<ctl, conns, sess, hist, resp, guestMem, logq, stream, received>>

\* the guest writes its response metadata and starts on a body that
\* body-read cannot hold: handle_request reads body-read only after the call
\* has returned (line 345-347), so the blocking write of the guest never ends
GuestRespondBlocks(r, response) ==
    /\ reqs[r].pc = "guest"
    /\ BodyLen(response.body) > SockBuf
    /\ Goto(r, "respond")
    /\ hist' = [hist EXCEPT ![r].made = response]
    /\ sess' = [sess EXCEPT ![r].parts = <<"rmp", response.status, response.body>>]
    /\ UNCHANGED <<ctl, conns, resp, guestMem, logq, stream, received>>

\* the guest writes response metadata and body and returns
GuestReturn(r, response) ==
    /\ reqs[r].pc = "guest"
    /\ BodyLen(response.body) <= SockBuf
    /\ Goto(r, "decode")
    /\ hist' = [hist EXCEPT ![r].made = response, ![r].steps = Append(@, "return")]
    /\ sess' = [sess EXCEPT ![r].parts = <<"rmp", response.status, response.body>>]
    /\ UNCHANGED <<ctl, conns, resp, guestMem, logq, stream, received>>

\* the guest returns without well-formed response metadata on the parts channel
GuestGarbage(r) ==
    /\ reqs[r].pc = "guest"
    /\ Goto(r, "decode")
    /\ sess' = [sess EXCEPT ![r].parts = <<"garbage">>]
    /\ hist' = [hist EXCEPT ![r].steps = Append(@, "return")]
    /\ UNCHANGED <<ctl, conns, resp, guestMem, logq, stream, received>>

\* the guest traps: call returns an Err (line 335)
GuestTrap(r) ==
    /\ reqs[r].pc = "guest"
    /\ Fail(r, "invoke")
    /\ UNCHANGED <<ctl, conns, hist, guestMem, logq, stream, received>>

\* line 337-354: decode the response metadata and return the response, whose
\* body is a stream over body_read_stream; the Store is dropped at the return
ReadResponse(r) ==
    /\ reqs[r].pc = "decode"
    /\ LET m == sess[r].parts IN
       IF m[1] = "rmp"
       THEN /\ Goto(r, "stream")
            /\ resp' = [resp EXCEPT ![r] = [status |-> m[2], body |-> ""]]
            /\ sess' = [sess EXCEPT ![r].open = FALSE]
            /\ hist' = [hist EXCEPT ![r].steps = Append(@, "rparts")]
       ELSE Fail(r, "decode") /\ UNCHANGED hist
    /\ UNCHANGED <<ctl, conns, guestMem, logq, stream, received>>

\* line 345-347: hyper polls the body of the response, which reads what the
\* guest left in body-read up to the end of the stream and drops
\* body_read_stream
StreamBody(r) ==
    /\ reqs[r].pc = "stream"
    /\ Goto(r, "done")
    /\ resp' = [resp EXCEPT ![r].body = sess[r].parts[3]]
    /\ hist' = [hist EXCEPT ![r].steps = Append(@, "rbody")]
    /\ UNCHANGED <<ctl, conns, sess, guestMem, logq, stream, received>>

(* --------------------------- channel endpoints ------------------------- *)
\* handle_request is between the creation of the channels and its return
InBridge(r) ==
    reqs[r].pc \in {"parts", "check", "body", "write", "call", "guest", "log", "respond",
                    "decode"}

\* the host ends of the channels of request r that are open: logs_stream is
\* owned by the log task, parts_stream is a local of handle_request,
\* body_write_stream is dropped at line 316 or at an earlier return, and
\* body_read_stream is dropped at a return or with the body of the response
HostEnds(r) ==
    {ch \in {"logs", "parts", "body-write", "body-read"} :
        \/ ch = "logs" /\ LogsHostOpen(r)
        \/ ch = "parts" /\ InBridge(r)
        \/ ch = "body-write" /\ reqs[r].pc \in {"parts", "check", "body", "write"}
        \/ ch = "body-read" /\ (InBridge(r) \/ reqs[r].pc = "stream")}

\* the guest ends are files of the execution context in the Store (line
\* 257-269) and are closed when the Store is dropped
GuestEnds(r) ==
    IF sess[r].open THEN {"logs", "parts", "body-write", "body-read"} ELSE {}

(* ------------------------ log forwarding task -------------------------- *)
\* line 275 without line 276: the record keeps the id the guest gave it
Stamp_unstamped(dep, r, seq) == [id |-> "guest", req |-> r, seq |-> seq]
\* line 275-276: the record gets the deployment id of the connection's service
Stamp(dep, r, seq) == [id |-> dep, req |-> r, seq |-> seq]

\* line 278: logs_tx.send(..).await appends the item once the queue has room
\* and is not ready before
Send_try(q, item) ==
    IF Len(q) < LogQueueCap THEN [ready |-> TRUE, q |-> Append(q, item)]
    ELSE [ready |-> TRUE, q |-> q]
Send(q, item) ==
    IF Len(q) < LogQueueCap THEN [ready |-> TRUE, q |-> Append(q, item)]
    ELSE [ready |-> FALSE, q |-> q]

\* line 272-279: read the next record, stamp it, send it; send waits while the
\* queue is full and fails, which panics the task, once the receiver is gone
LogForward(r) ==
    /\ LogsHostOpen(r)
    /\ sess[r].logch # <<>>
    /\ IF stream = "dropped"
       THEN /\ sess' = [sess EXCEPT ![r].task = "panicked", ![r].logch = <<>>]
            /\ UNCHANGED logq
       ELSE LET sent == Send(logq, Stamp(conns[reqs[r].conn].dep, r, Head(sess[r].logch)))
            IN /\ sent.ready
               /\ logq' = sent.q
               /\ sess' = [sess EXCEPT ![r].logch = Tail(@), ![r].task = "running"]
    /\ UNCHANGED <<ctl, conns, reqs, hist, resp, guestMem, stream, received>>

\* line 272-274: logs_stream.bytes() is a blocking read of the socket; with
\* nothing to read and the guest end open it keeps the worker thread that
\* polls the task
LogPark(r) ==
    /\ sess[r].task = "running"
    /\ sess[r].logch = <<>>
    /\ sess[r].open
    /\ sess' = [sess EXCEPT ![r].task = "reading"]
    /\ UNCHANGED <<ctl, conns, reqs, hist, resp, guestMem, logq, stream, received>>

\* line 274: from_bytes returns None at the end of the stream
LogEof(r) ==
    /\ LogsHostOpen(r)
    /\ sess[r].logch = <<>>
    /\ ~sess[r].open
    /\ sess' = [sess EXCEPT ![r].task = "done"]
    /\ UNCHANGED <<ctl, conns, reqs, hist, resp, guestMem, logq, stream, received>>

(* --------------------------- worker threads ---------------------------- *)
\* the connection task of request r is on a worker thread: handle_request
\* runs without an await from its start to to_bytes (line 306), which is ready
\* at once for an empty body, and from there through the guest call, a
\* synchronous call (line 321-335), to its return
OnThread(r) ==
    \/ reqs[r].pc \in {"new", "parts", "check", "write", "call", "guest", "log", "respond",
                       "decode"}
    \/ reqs[r].pc = "body" /\ reqs[r].size = 0

\* worker threads that are taken: by connection tasks and by log tasks
\* blocked in their read
Busy ==
    Cardinality({r \in Reqs : OnThread(r)})
        + Cardinality({r \in Reqs : sess[r].task = "reading"})

\* a worker thread is left to poll another task
Idle == Busy < Workers

(* ----------------------------- subscriber ------------------------------ *)
\* the caller of subscribe_logs takes the next item of its ReceiverStream
Recv ==
    /\ stream = "live"
    /\ logq # <<>>
    /\ received' = [received EXCEPT ![Head(logq).req] = Append(@, Head(logq))]
    /\ logq' = Tail(logq)
    /\ UNCHANGED <<ctl, conns, reqs, sess, hist, resp, guestMem, stream>>

\* the caller drops its ReceiverStream: the receiver and what it holds are gone
DropStream ==
    /\ stream = "live"
    /\ stream' = "dropped"
    /\ logq' = <<>>
    /\ UNCHANGED <<ctl, conns, reqs, sess, hist, resp, guestMem, received>>

(* --------------------------- specifications ---------------------------- *)
NextController ==
    \/ \E p \in Paths : load(p)
    \/ \E d \in DeployIds, p \in Ports : start(d, p)
    \/ subscribe_logs
    \/ \E n \in Names : stop(n)

NextServer ==
    \/ \E k \in Chans : ServerBind(k)
    \/ \E k \in Chans : ServerKilled(k)
    \/ \E k \in Chans : ServerFailed(k)

NextRequest ==
    \/ \E r \in Reqs, ok \in BOOLEAN : CreateSession(r, ok)
    \/ \E r \in Reqs, ok \in BOOLEAN : WriteParts(r, ok)
    \/ \E r \in Reqs : CheckSize(r)
    \/ \E r \in Reqs, ok \in BOOLEAN : ReadBody(r, ok)
    \/ \E r \in Reqs, ok \in BOOLEAN : WriteBody(r, ok)
    \/ \E r \in Reqs : Invoke(r)
    \/ \E r \in Reqs, made \in GuestResponses : GuestReturn(r, made)
    \/ \E r \in Reqs, made \in GuestResponses : GuestRespondBlocks(r, made)
    \/ \E r \in Reqs : GuestGarbage(r)
    \/ \E r \in Reqs : GuestTrap(r)
    \/ \E r \in Reqs : ReadResponse(r)
    \/ \E r \in Reqs : StreamBody(r)
    \/ \E r \in Reqs : LogEof(r)

NextLogs ==
    \/ \E r \in Reqs : GuestLog(r)
    \/ \E r \in Reqs : GuestLogBlocks(r)
    \/ \E r \in Reqs : LogForward(r)
    \/ Recv
    \/ DropStream

NextBridge ==
    \/ \E c \in Conns, k \in Chans : Accept(c, k)
    \/ \E c \in Conns : CloseConn(c)
    \/ \E r \in Reqs, c \in Conns, size \in BodySizes : \E upper \in Hints(size) :
          Arrive(r, c, size, upper)
    \/ NextRequest
    \/ NextLogs

\* the controller and its server tasks under every sequence of lifecycle calls
NextLifecycle == NextController \/ NextServer

SpecLifecycle == Init /\ [][NextLifecycle]_vars

\* the same, every server task scheduled: a spawned task gets to bind and a
\* task whose kill_rx has resolved gets to leave its select!
SpecStop ==
    /\ Init /\ [][NextLifecycle]_vars
    /\ \A k \in Chans : WF_vars(ServerBind(k))
    /\ \A k \in Chans : WF_vars(ServerKilled(k))

\* one deployment serving requests: a module is loaded and started once,
\* connections are accepted and requests of every size handled, by guests
\* that do not log
NextServing ==
    \/ router = NoModule /\ nStarts = 0 /\ \E p \in {"good.wasm", "noexport.wasm"} : load(p)
    \/ nStarts = 0 /\ \E d \in DeployIds : start(d, 8000)
    \/ \E k \in Chans : ServerBind(k)
    \/ \E c \in Conns, k \in Chans : Accept(c, k)
    \/ \E r \in Reqs, c \in Conns, size \in BodySizes : \E upper \in Hints(size) :
          Arrive(r, c, size, upper)
    \/ NextRequest

SpecBridge == Init /\ [][NextServing]_vars

\* one deployment being stopped: requests with an empty body keep arriving
\* on the connections while the service is started and stopped
NextStopping ==
    \/ router = NoModule /\ nStarts = 0 /\ load("good.wasm")
    \/ nStarts = 0 /\ \E d \in DeployIds : start(d, 8000)
    \/ \E n \in Names : stop(n)
    \/ NextServer
    \/ \E c \in Conns, k \in Chans : Accept(c, k)
    \/ \E c \in Conns : CloseConn(c)
    \/ \E r \in Reqs, c \in Conns : Arrive(r, c, 0, 0)
    \/ NextRequest

SpecShutdown == Init /\ [][NextStopping]_vars

\* one deployment logging: requests with an empty body are handled while
\* their guests log and the logs are subscribed to
NextLogging ==
    \/ router = NoModule /\ nStarts = 0 /\ load("good.wasm")
    \/ nStarts = 0 /\ \E d \in DeployIds : start(d, 8000)
    \/ subCalls = 0 /\ subscribe_logs
    \/ \E k \in Chans : ServerBind(k)
    \/ \E c \in Conns, k \in Chans : Accept(c, k)
    \/ \E r \in Reqs, c \in Conns : Arrive(r, c, 0, 0)
    \/ NextRequest
    \/ NextLogs

\* every log task that can forward a record gets to run, and the subscriber
\* keeps taking items while it holds the stream
SpecLogs ==
    /\ Init /\ [][NextLogging]_vars
    /\ WF_vars(Recv)
    /\ \A r \in Reqs : WF_vars(LogForward(r))

\* a step of the guest of request r
GuestStep(r) ==
    \/ GuestLog(r)
    \/ GuestLogBlocks(r)
    \/ \E made \in GuestResponses : GuestReturn(r, made)
    \/ \E made \in GuestResponses : GuestRespondBlocks(r, made)
    \/ GuestGarbage(r)
    \/ GuestTrap(r)

\* a step of handle_request on the connection task of request r
HostStep(r) ==
    \/ \E ok \in BOOLEAN : CreateSession(r, ok)
    \/ \E ok \in BOOLEAN : WriteParts(r, ok)
    \/ CheckSize(r)
    \/ \E ok \in BOOLEAN : ReadBody(r, ok)
    \/ \E ok \in BOOLEAN : WriteBody(r, ok)
    \/ Invoke(r)
    \/ ReadResponse(r)
    \/ StreamBody(r)

\* one deployment logging, every task scheduled: handle_request and the log
\* task of every request get to run whenever they can take a step, the guest
\* goes on whenever its reads and writes are served and returns after at most
\* MaxLogs records, and the subscriber, if there is one, keeps taking items
SpecBackpressure ==
    /\ Init /\ [][NextLogging]_vars
    /\ WF_vars(Recv)
    /\ \A r \in Reqs : WF_vars(HostStep(r))
    /\ \A r \in Reqs : WF_vars(GuestStep(r))
    /\ \A r \in Reqs : WF_vars(LogForward(r))
    /\ \A r \in Reqs : WF_vars(LogEof(r))

\* a deployment restarted: the module is loaded and started, stopped, loaded
\* and started again under any deployment id, while requests with an empty
\* body are served without failures on the connections of both servers, their
\* guests log one record each and the subscriber, there from the beginning,
\* takes the records
NextRestart ==
    \/ subCalls = 0 /\ subscribe_logs
    \/ subCalls = 1 /\ router = NoModule /\ kill_tx = 0 /\ load("good.wasm")
    \/ kill_tx = 0 /\ \E d \in DeployIds : start(d, 8000)
    \/ kill_tx # 0 /\ stop("svc")
    \/ \E k \in Chans : ServerBind(k)
    \/ \E k \in Chans : ServerKilled(k)
    \/ \E c \in Conns, k \in Chans : Accept(c, k)
    \/ \E r \in Reqs, c \in Conns : Arrive(r, c, 0, 0)
    \/ \E r \in Reqs : CreateSession(r, TRUE)
    \/ \E r \in Reqs : WriteParts(r, TRUE)
    \/ \E r \in Reqs : CheckSize(r)
    \/ \E r \in Reqs : ReadBody(r, TRUE)
    \/ \E r \in Reqs : WriteBody(r, TRUE)
    \/ \E r \in Reqs : Invoke(r)
    \/ \E r \in Reqs : hist[r].emitted = 0 /\ GuestLog(r)
    \/ \E r \in Reqs : GuestReturn(r, [status |-> 200, body |-> "Hello, World!"])
    \/ \E r \in Reqs : ReadResponse(r)
    \/ \E r \in Reqs : StreamBody(r)
    \/ \E r \in Reqs : LogForward(r)
    \/ \E r \in Reqs : LogEof(r)
    \/ Recv

SpecRestart == Init /\ [][NextRestart]_vars

\* one deployment on a runtime of Workers threads: a task that is not on a
\* thread takes a step only when a thread is idle
NextPool ==
    \/ router = NoModule /\ nStarts = 0 /\ load("good.wasm")
    \/ nStarts = 0 /\ start("d1", 8000)
    \/ Idle /\ \E k \in Chans : ServerBind(k)
    \/ Idle /\ \E c \in Conns, k \in Chans : Accept(c, k)
    \/ Idle /\ \E r \in Reqs, c \in Conns, size \in {0, 65536} : Arrive(r, c, size, size)
    \/ \E r \in Reqs : (OnThread(r) \/ Idle) /\ HostStep(r)
    \/ \E r \in Reqs : GuestStep(r)
    \/ \E r \in Reqs : Idle /\ LogPark(r)
    \/ \E r \in Reqs : (sess[r].task = "reading" \/ Idle) /\ LogForward(r)
    \/ \E r \in Reqs : (sess[r].task = "reading" \/ Idle) /\ LogEof(r)

SpecWorkers == Init /\ [][NextPool]_vars

Next == NextController \/ NextServer \/ NextBridge

Spec == Init /\ [][Next]_vars

(* ------------------------------- claims -------------------------------- *)
\* C1: over the lifetime of the controller exactly the first subscribe_logs
\* call succeeds and hands out the live stream; every later call fails with
\* the already-subscribed error, and the receiver is never stored again.
C1_SubscribeOnce ==
    /\ last.op = "SubscribeLogs" => (last.res = "ok" <=> subCalls = 1)
    /\ last.op = "SubscribeLogs" /\ last.res # "ok" => last.res = "AlreadySubscribed"
    /\ logs_rx <=> subCalls = 0
    /\ subCalls >= 1 => stream # "none"

C1_Witness ==
    /\ last.op = "SubscribeLogs" /\ last.res = "AlreadySubscribed"
    /\ subCalls = 2 /\ run = "running"

\* C2: a Start call succeeds exactly when a Load has succeeded since
\* construction or since the last successful Start; otherwise it fails with
\* the not-loaded error and spawns no server. A successful Start spawns one
\* server with the stored module and leaves no module stored.
C2_StartNeedsLoad ==
    [][nStarts' = nStarts + 1 =>
          /\ last'.op = "Start"
          /\ last'.res = "ok" <=> loaded
          /\ last'.res # "ok" => last'.res = "NotLoaded" /\ server' = server
          /\ last'.res = "ok" =>
                /\ server'[nStarts'].st = "spawned"
                /\ server'[nStarts'].module = router
                /\ \A k \in Chans \ {nStarts'} : server'[k] = server[k]
                /\ router' = NoModule /\ ~loaded']_vars

C2_Witness ==
    /\ last.op = "Start" /\ last.res = "NotLoaded"
    /\ run = "running" /\ nStarts = 2

\* C3: while no Start call has succeeded, a Stop call with a valid service
\* name fails with the not-running error and with no other error.
C3_StopBeforeStart ==
    run = "never" /\ last.op = "Stop" /\ ValidName(last.arg) => last.res = "NotRunning"

\* C4 as claimed: a Load issued while a server is Running, or after a
\* successful Stop, is rejected and stores no module.
C4_LoadRejectedAfterStart ==
    last.op = "Load" /\ last.phase \in {"Running", "Stopped"} =>
        last.res # "ok" /\ router = NoModule

\* C4 as amended: Load is accepted in every controller state, Running and
\* Stopped included; it succeeds and stores the module whenever the module
\* compiles, and only a module that does not compile is rejected.
C4_LoadInEveryState ==
    last.op = "Load" =>
        /\ last.res = "ok" <=> last.arg \in {"good.wasm", "noexport.wasm"}
        /\ last.res = "ok" => router = last.arg /\ loaded
        /\ last.res # "ok" => last.res = "CompileError"

C4_Witness ==
    \/ last.op = "Load" /\ last.res = "ok" /\ last.phase = "Running" /\ router # NoModule
    \/ last.op = "Load" /\ last.res = "ok" /\ last.phase = "Stopped" /\ router # NoModule

Oversized(r) == reqs[r].size > BodyCeiling \/ reqs[r].upper > BodyCeiling

NeverInvoked(r) ==
    /\ hist[r].seen = "none" /\ hist[r].got = <<>> /\ hist[r].emitted = 0
    /\ ~hist[r].read /\ sess[r].bw = <<>>

\* C5 as claimed: every request whose body or declared upper bound exceeds
\* 65536 bytes is answered 413 with an empty body, without the guest entry
\* point being invoked and without the body being read or written.
C5_OversizedIs413 ==
    \A r \in Reqs : Oversized(r) /\ reqs[r].pc = "done" =>
        resp[r] = Empty(413) /\ NeverInvoked(r)

\* C5 as amended: such a request is answered 413 with an empty body unless
\* creating the session or writing the request metadata fails first, in which
\* case it is answered 500; either way the guest entry point is never invoked
\* and the body is never read or written to the body-write channel.
C5_OversizedIs413AfterParts ==
    \A r \in Reqs : Oversized(r) =>
        /\ reqs[r].pc \in {"new", "parts", "check", "done"}
        /\ NeverInvoked(r)
        /\ reqs[r].pc = "done" =>
              \/ reqs[r].fail = "none" /\ resp[r] = Empty(413)
              \/ reqs[r].fail \in {"session", "parts"} /\ resp[r] = Empty(500)

C5_Witness ==
    \E r \in Reqs :
        /\ reqs[r].size > BodyCeiling /\ reqs[r].upper = Unknown
        /\ reqs[r].pc = "done" /\ resp[r] = Empty(413) /\ sess[r].parts = <<"request">>

\* C6: a request whose body is at most 65536 bytes, its size known in advance
\* or not, is never answered 413; when no step of the bridge fails the guest
\* is invoked with the complete body and the response is the guest's.
C6_SmallBodyReachesGuest ==
    \A r \in Reqs : reqs[r].size <= BodyCeiling /\ reqs[r].pc = "done" =>
        /\ resp[r].status # 413
        /\ reqs[r].fail = "none" =>
              hist[r].got = <<reqs[r].size, "eof">> /\ resp[r] = hist[r].made

\* C7: a failure of any step of the bridge, a missing entry point included,
\* ends that request with an empty 500.
C7_FailureIs500 ==
    \A r \in Reqs : reqs[r].fail # "none" => resp[r] = Empty(500)

\* C8: the guest of every request starts from pristine memory whatever the
\* guests of other requests did before or meanwhile, and no session changes
\* the router shared by the requests of a connection.
C8_FreshSession ==
    /\ \A r \in Reqs : hist[r].seen \in {"none", "pristine"}
    /\ \A r \in Reqs : reqs[r].pc \in {"parts", "check", "body", "write", "call"} =>
          sess[r].mem = "pristine"
    /\ \A c \in Conns : conns[c].linker = "wasi"

C8_Witness ==
    \E a, b \in Reqs :
        /\ a # b /\ reqs[a].conn = reqs[b].conn
        /\ reqs[a].pc = "done" /\ hist[a].seen = "pristine" /\ sess[a].mem = "dirty"
        /\ reqs[b].pc = "guest" /\ hist[b].seen = "pristine"

Seqs(items) == [i \in 1..Len(items) |-> items[i].seq]
FromReq(r) == LET Test(item) == item.req = r IN SelectSeq(logq, Test)

\* the records of request r, in the order emitted, are those received, then
\* those queued, then those still in the logs channel
C9_Conserved ==
    stream # "dropped" =>
        \A r \in Reqs :
            Seqs(received[r]) \o Seqs(FromReq(r)) \o sess[r].logch
                = [i \in 1..hist[r].emitted |-> i]

C10_NoSessionAfterStop ==
    \A r \in Reqs : ~hist[r].late

\* the guest call of request r waits in a write to the logs channel that the
\* log task cannot empty because the log queue has no free space
WaitsOnQueue(r) ==
    /\ reqs[r].pc = "log"
    /\ Len(sess[r].logch) >= LogChanCap
    /\ stream # "dropped"
    /\ Len(logq) >= LogQueueCap

\* C11: no request ever waits on the log queue having free space, and every
\* request that arrived completes with a response, whether the subscriber is
\* slow or has never subscribed and however many records the guest emits.
C11_ResponseNeverWaitsOnQueue ==
    /\ [](\A r \in Reqs : ~WaitsOnQueue(r))
    /\ \A r \in Reqs : (reqs[r].pc # "idle") ~> (reqs[r].pc = "done")

Alive(k) == server[k].st \in {"spawned", "serving"}

\* C12: after a successful Stop every server task started before it, by
\* whichever Start, eventually exits; the cancellation sender is gone and the
\* controller Stopped, and a Stop that follows, with no Start call in
\* between, fails with the not-running error.
C12_StoppedServersExit ==
    /\ \A k \in Chans : (last.op = "Stop" /\ last.res = "ok" /\ Alive(k)) ~> ~Alive(k)
    /\ [](last.op = "Stop" /\ last.res = "ok" => kill_tx = 0 /\ Phase = "Stopped")
    /\ [][last.op = "Stop" /\ last.res = "ok" /\ last' # last /\ last'.op = "Stop"
              /\ ValidName(last'.arg)
            => last'.res = "NotRunning" /\ last'.phase = "Stopped" /\ UNCHANGED server]_vars

C12_Witness ==
    /\ last.op = "Stop" /\ last.res = "ok"
    /\ \A k \in Chans : server[k].st = "serving"

\* the IPC steps of one request in the order of the protocol
StepOrder == <<"parts", "body", "eof", "invoke", "return", "rparts", "rbody">>

IsPrefix(s, t) == Len(s) <= Len(t) /\ \A i \in 1..Len(s) : s[i] = t[i]

\* C13: the IPC steps carried out for a request are always an initial part of
\* metadata write, body write, close of the write half, guest call, return of
\* the guest, metadata read, body read, each step finished before the next
\* starts; a request that had a step fail is finished with an error and no
\* further step is carried out for it.
C13_StepsInOrder ==
    /\ [](\A r \in Reqs : IsPrefix(hist[r].steps, StepOrder))
    /\ [](\A r \in Reqs : reqs[r].fail # "none" =>
              reqs[r].pc = "done" /\ resp[r].status \in {500, -1})
    /\ [][\A r \in Reqs : reqs[r].fail # "none" => hist'[r].steps = hist[r].steps]_vars

C13_Witness ==
    \E a, b \in Reqs :
        /\ reqs[a].pc = "done" /\ hist[a].steps = StepOrder
        /\ reqs[b].pc = "done" /\ reqs[b].fail = "decode"
        /\ hist[b].steps = <<"parts", "body", "eof", "invoke", "return">>

\* C14: whatever the outcome of a request, once it is finished every end of
\* its four channels, host side and guest side, is eventually closed and its
\* execution context disposed.
C14_SessionTornDown ==
    \A r \in Reqs :
        (reqs[r].pc = "done") ~> (HostEnds(r) = {} /\ GuestEnds(r) = {})

\* C15: the log task of a request never panics, and once the session is torn
\* down and the guest end of the logs channel closed it reaches the end of the
\* stream and exits, subscriber or not.
C15_LogTaskEnds ==
    /\ [](\A r \in Reqs : sess[r].task # "panicked")
    /\ \A r \in Reqs :
          (sess[r].task # "none" /\ ~sess[r].open) ~> (sess[r].task = "done")

\* the server that handled request r
ServerOf(r) == conns[reqs[r].conn].srv

Records == {logq[i] : i \in 1..Len(logq)} \cup
           UNION {{received[r][i] : i \in 1..Len(received[r])} : r \in Reqs}

\* C16: every record in the log queue or received from it carries the
\* deployment id given to the Start call whose server handled the request of
\* the record, not an id of the guest's; records of requests handled by
\* servers started under different ids never carry each other's id.
C16_StampedWithDeployment ==
    /\ \A item \in Records : item.id = server[ServerOf(item.req)].dep
    /\ \A a, b \in Records :
          server[ServerOf(a.req)].dep # server[ServerOf(b.req)].dep => a.id # b.id

C16_Witness ==
    \E a, b \in Reqs :
        /\ reqs[a].conn # 0 /\ reqs[b].conn # 0
        /\ ServerOf(a) = 1 /\ ServerOf(b) = 2
        /\ server[1].dep = "d1" /\ server[2].dep = "d2" /\ server[1].st = "exited"
        /\ received[a] # <<>> /\ received[b] # <<>>
        /\ received[a][1].id = "d1" /\ received[b][1].id = "d2"

\* C17: while the guest call of a request has not returned, a worker thread
\* is left for the acceptor and for the tasks of the other requests, however
\* many requests are in flight.
C17_OthersNotStalled ==
    \A r \in Reqs : reqs[r].pc \in {"guest", "log", "respond"} => Idle

\* C18: a Start call that fails for want of a module changes neither the
\* controller nor a running server: the stored sender stays stored and live,
\* so that the server goes on and a later Stop reaches it.
C18_FailedStartChangesNothing ==
    [][nStarts' = nStarts + 1 /\ last'.res = "NotLoaded" /\ kill_tx # 0 /\ Alive(kill_tx) =>
          /\ kill_tx' = kill_tx
          /\ chan'[kill_tx] = chan[kill_tx]
          /\ server' = server]_vars

\* C19: a Stop call whose service name is not valid returns the error of the
\* name and changes nothing: the sender stays stored and the servers are as
\* they were; a Stop with a valid name that finds a sender whose server is
\* alive succeeds.
C19_InvalidNameChangesNothing ==
    /\ [][last' # last /\ last'.op = "Stop" /\ last'.arg = "-bad-" =>
              /\ last'.res = "InvalidName"
              /\ UNCHANGED <<router, logs_rx, kill_tx, nStarts, chan, server, run, loaded>>]_vars
    /\ [][last' # last /\ last'.op = "Stop" /\ last'.arg = "svc"
              /\ kill_tx # 0 /\ chan[kill_tx].rx = "live" =>
              last'.res = "ok" /\ chan'[kill_tx].tx = "sent"]_vars

C19_Witness ==
    /\ last.op = "Stop" /\ last.res = "InvalidName" /\ last.phase = "Running"
    /\ kill_tx # 0 /\ server[kill_tx].st = "serving" /\ chan[kill_tx].tx = "live"

\* C20: the guest never waits, in a write, for handle_request to read a
\* channel while handle_request waits for the guest to return, and every call
\* of a guest that terminates when its reads and writes are served leads to
\* a response, whatever the sizes of the request body and of the guest's logs,
\* response metadata and response body.
C20_NoHostGuestDeadlock ==
    /\ [](\A r \in Reqs : reqs[r].pc # "respond")
    /\ \A r \in Reqs : (reqs[r].pc = "call") ~> (reqs[r].pc \in {"stream", "done"})

====
